---- MODULE Spec2Model ----
(***************************************************************************)
(* DtlsAssociation (src/association.h, src/association.cpp): a client-side *)
(* DTLS association driven by Qt signals.  One action per slot / public    *)
(* method; every action is one dispatch step of the event loop, including  *)
(* the slots it calls synchronously (readyRead -> pingTimeout,             *)
(* connected -> udpSocketConnected -> startHandshake).                     *)
(*                                                                         *)
(* The association's own fields are socket, crypto (hs, encrypted,         *)
(* hsTimer), pingTimer and ping.  QUdpSocket and QDtls are library         *)
(* objects: their results are chosen nondeterministically among the        *)
(* outcomes their API allows at each call site.                            *)
(*                                                                         *)
(* state, handler, events, ops, sent, pingFailed and started are observer  *)
(* variables: what a test harness connected to the four signals and        *)
(* wrapping the engine would record.  state is the lifecycle state that    *)
(* the code path just executed stands for (the path that emits "failed    *)
(* to ..." is Failed, "shutdown alert received" is Closed, and so on).     *)
(* The harness also counts (retransmits, errored, failures, timerStarts)   *)
(* and keeps the payloads of the last step (readLength, datagram, plainText,   *)
(* response).                                                              *)
(*                                                                         *)
(* Spec is one association; Spec2 is two associations in one event loop,   *)
(* the second one kept in the variable other.                              *)
(***************************************************************************)
EXTENDS Integers, Sequences, FiniteSets, TLC

\* Bounds of the model.
MaxConn == 2       \* startHandshake() calls made before the socket connects
MaxPing == 3       \* successful pings (unsigned ping wraps only at 2^32, far beyond it)
MaxRetransmit == 2 \* expiries of the retransmission timer
MaxSteps == 4      \* dispatch steps of the loop shared by two associations

\* Contents of inbound datagrams and of the plaintexts they decrypt to.
Datagrams == {"dgram1", "dgram2"}
Plaintexts == {"plain1", "plain2"}

VARIABLES
    socket,       \* socket.state(): "ConnectingState", "ConnectedState", "UnconnectedState"
    connections,  \* number of connect(&socket, connected, this, udpSocketConnected) made
    hs,           \* crypto.handshakeState()
    encrypted,    \* crypto.isConnectionEncrypted()
    hsTimer,      \* crypto's retransmission timer armed (source of handshakeTimeout)
    dtlsError,    \* crypto.dtlsError()
    pingTimer,    \* pingTimer.isActive()
    ping,         \* unsigned ping
    alive,        \* the object has not been destroyed
    state,        \* observer: lifecycle state
    before,       \* observer: lifecycle state when the last step began
    handler,      \* observer: the slot or method that ran in the last step
    events,       \* observer: signals emitted by the last step, in order
    ops,          \* observer: library operations invoked by the last step, in order
    sent,         \* observer: ping numbers of the pings sent successfully, in order
    pingFailed,   \* observer: some keepalive send has failed
    started,      \* observer: startHandshake() has been called
    name,         \* QString name
    retransmits,  \* observer: 'retransmit' warnings emitted so far
    errored,      \* observer: some error event has been emitted
    failures,     \* observer: engine operations that failed in the last step
    timerStarts,  \* observer: calls of pingTimer.start() so far
    readLength,   \* observer: result of socket.readDatagram() in the last step
    datagram,     \* observer: the datagram read in the last step ("" if none)
    plainText,    \* observer: the plaintext the engine returned in the last step
    response,     \* observer: arguments of the serverResponse signals of the last step
    other,        \* a second association of the same loop
    actor,        \* observer: the association that took the last step (1 or 2)
    steps         \* observer: dispatch steps taken by the shared loop

vars == <<socket, connections, hs, encrypted, hsTimer, dtlsError, pingTimer, ping,
          alive, state, before, handler, events, ops, sent, pingFailed, started,
          name, retransmits, errored, failures, timerStarts, readLength, datagram,
          plainText, response, other, actor, steps>>

States == {"Idle", "ConnectingTransport", "Handshaking", "Connected", "Closed", "Failed"}

\* The association as one value, so that a slot can call another slot.
Cur ==
    [socket |-> socket, connections |-> connections, hs |-> hs,
     encrypted |-> encrypted, hsTimer |-> hsTimer, dtlsError |-> dtlsError,
     pingTimer |-> pingTimer, ping |-> ping, alive |-> alive, state |-> state,
     before |-> before, handler |-> handler,
     events |-> events, ops |-> ops, sent |-> sent, pingFailed |-> pingFailed,
     started |-> started, name |-> name, retransmits |-> retransmits,
     errored |-> errored, failures |-> failures, timerStarts |-> timerStarts,
     readLength |-> readLength, datagram |-> datagram, plainText |-> plainText,
     response |-> response]

Becomes(b) ==
    /\ socket' = b.socket
    /\ connections' = b.connections
    /\ hs' = b.hs
    /\ encrypted' = b.encrypted
    /\ hsTimer' = b.hsTimer
    /\ dtlsError' = b.dtlsError
    /\ pingTimer' = b.pingTimer
    /\ ping' = b.ping
    /\ alive' = b.alive
    /\ state' = b.state
    /\ before' = b.before
    /\ handler' = b.handler
    /\ events' = b.events
    /\ ops' = b.ops
    /\ sent' = b.sent
    /\ pingFailed' = b.pingFailed
    /\ started' = b.started
    /\ name' = b.name
    /\ retransmits' = b.retransmits
    /\ errored' = b.errored
    /\ failures' = b.failures
    /\ timerStarts' = b.timerStarts
    /\ readLength' = b.readLength
    /\ datagram' = b.datagram
    /\ plainText' = b.plainText
    /\ response' = b.response

\* A new dispatch step: the observer's per-step logs start empty.
Begin(a, h) ==
    [a EXCEPT !.handler = h, !.events = <<>>, !.ops = <<>>, !.before = a.state,
              !.failures = 0, !.readLength = 0, !.datagram = "", !.plainText = "",
              !.response = <<>>]

\* The errorMessage signals.
ErrorEvents ==
    {"error:start", "error:handshake", "error:retransmit", "error:ping",
     "error:shutdown_alert"}

Emit(a, e) ==
    [a EXCEPT !.events = Append(@, e),
              !.errored = @ \/ e \in ErrorEvents,
              !.retransmits = IF e = "warning:retransmit" THEN @ + 1 ELSE @]

\* emit serverResponse(clientInfo, datagram, plainText)
Respond(a, clientInfo, bytes, text) ==
    [Emit(a, "response") EXCEPT !.response = Append(@, <<clientInfo, bytes, text>>)]

Call(a, op) == [a EXCEPT !.ops = Append(@, op)]

(***************************************************************************)
(* QDtls at its call sites.  Each operator gives the set of outcomes the   *)
(* call can have in engine state (a.hs, a.encrypted, a.hsTimer).           *)
(***************************************************************************)

\* An outcome r that reports a failure: doHandshake() or handleTimeout()
\* returning false, writeDatagramEncrypted() returning <= 0.
Failure(r) ==
    IF "ok" \in DOMAIN r THEN ~r.ok
    ELSE IF "written" \in DOMAIN r THEN r.written <= 0
    ELSE FALSE

\* What the engine keeps of an outcome r of one of its operations, and what
\* the observer notes of it.
Engine(a, r) ==
    [a EXCEPT !.hs = r.hs, !.encrypted = r.encrypted, !.hsTimer = r.hsTimer,
              !.dtlsError = r.dtlsError,
              !.failures = IF Failure(r) THEN @ + 1 ELSE @,
              !.plainText = IF "plainText" \in DOMAIN r THEN r.plainText ELSE @]

\* crypto.doHandshake(&socket [, dgram]): starts or continues the handshake.
\* A completed handshake cannot be started or continued again; a handshake
\* completes only on a datagram fed to a handshake in progress; whenever a
\* flight is outstanding the retransmission timer is armed, and a failure or
\* completion leaves it stopped.  A handshake that fails to start stays not
\* started; one that fails later is reset or stays in progress.
doHandshake(a, dgram) ==
    IF a.hs = "HandshakeComplete"
    THEN {[ok |-> FALSE, hs |-> a.hs, encrypted |-> a.encrypted, hsTimer |-> a.hsTimer,
           dtlsError |-> "InvalidOperation"]}
    ELSE {[ok |-> TRUE, hs |-> "HandshakeInProgress", encrypted |-> FALSE, hsTimer |-> TRUE,
           dtlsError |-> "NoError"]}
         \cup {[ok |-> FALSE, hs |-> h, encrypted |-> FALSE, hsTimer |-> FALSE,
                dtlsError |-> "TlsFatalError"] :
                  h \in {"HandshakeNotStarted", a.hs}}
         \cup (IF dgram /\ a.hs = "HandshakeInProgress"
               THEN {[ok |-> TRUE, hs |-> "HandshakeComplete", encrypted |-> TRUE,
                      hsTimer |-> FALSE, dtlsError |-> "NoError"]}
               ELSE {})

\* crypto.handleTimeout(&socket): retransmits and re-arms the timer, or fails.
handleTimeout(a) ==
    {[ok |-> TRUE, hs |-> a.hs, encrypted |-> a.encrypted, hsTimer |-> TRUE,
      dtlsError |-> "NoError"],
     [ok |-> FALSE, hs |-> a.hs, encrypted |-> a.encrypted, hsTimer |-> FALSE,
      dtlsError |-> "TlsFatalError"]}

\* crypto.decryptDatagram(&socket, dgram) with crypto.dtlsError() after it.
\* A close alert from the peer ends the DTLS connection; a datagram that is
\* dropped or fails to decrypt (TlsNonFatalError: "QDtls can continue working
\* after this error") leaves the engine as it was.
decryptDatagram(a) ==
    {[size |-> 1, plainText |-> t, dtlsError |-> "NoError", hs |-> a.hs,
      encrypted |-> TRUE, hsTimer |-> a.hsTimer] : t \in Plaintexts}
    \cup {[size |-> 0, plainText |-> "", dtlsError |-> "RemoteClosedConnectionError",
           hs |-> "HandshakeNotStarted", encrypted |-> FALSE, hsTimer |-> a.hsTimer]}
    \cup {[size |-> 0, plainText |-> "", dtlsError |-> "NoError", hs |-> a.hs,
           encrypted |-> TRUE, hsTimer |-> a.hsTimer]}
    \cup {[size |-> 0, plainText |-> "", dtlsError |-> "TlsNonFatalError", hs |-> a.hs,
           encrypted |-> a.encrypted, hsTimer |-> a.hsTimer]}

\* crypto.writeDatagramEncrypted(&socket, bytes): bytes written, or <= 0.
\* Writing is refused unless the connection is encrypted; a failed write may
\* or may not leave it encrypted.
writeDatagramEncrypted(a) ==
    IF ~a.encrypted
    THEN {[written |-> -1, hs |-> a.hs, encrypted |-> FALSE, hsTimer |-> a.hsTimer,
           dtlsError |-> "InvalidOperation"]}
    ELSE {[written |-> 1, hs |-> a.hs, encrypted |-> TRUE, hsTimer |-> a.hsTimer,
           dtlsError |-> "NoError"]}
         \cup {[written |-> 0, hs |-> a.hs, encrypted |-> TRUE, hsTimer |-> a.hsTimer,
                dtlsError |-> "NoError"]}
         \cup {[written |-> -1, hs |-> a.hs, encrypted |-> c, hsTimer |-> a.hsTimer,
                dtlsError |-> "TlsFatalError"] : c \in BOOLEAN}

\* socket.readDatagram(): only a connected socket delivers bytes.
readDatagram(a) ==
    IF a.socket = "ConnectedState" THEN {-1, 0, 1} ELSE {-1, 0}

(***************************************************************************)
(* The slots and methods of DtlsAssociation.  Each gives the set of        *)
(* associations the call can leave behind.                                 *)
(***************************************************************************)

\* pingTimeout without ++ping.
pingTimeout_NoIncrement(a) ==
    { IF w.written <= 0
      THEN [Emit(Call(Engine(a, w), "writeDatagramEncrypted"), "error:ping")
               EXCEPT !.pingTimer = FALSE, !.state = "Failed", !.pingFailed = TRUE]
      ELSE [Call(Engine(a, w), "writeDatagramEncrypted")
               EXCEPT !.sent = Append(@, a.ping)]
      : w \in writeDatagramEncrypted(a) }

\* pingTimeout without pingTimer.stop() on a failed send.
pingTimeout_NoStop(a) ==
    { IF w.written <= 0
      THEN [Emit(Call(Engine(a, w), "writeDatagramEncrypted"), "error:ping")
               EXCEPT !.state = "Failed", !.pingFailed = TRUE]
      ELSE [Call(Engine(a, w), "writeDatagramEncrypted")
               EXCEPT !.ping = @ + 1, !.sent = Append(@, a.ping)]
      : w \in writeDatagramEncrypted(a) }

\* pingTimeout counting failed sends too.
pingTimeout_CountsFailures(a) ==
    { IF w.written <= 0
      THEN [Emit(Call(Engine(a, w), "writeDatagramEncrypted"), "error:ping")
               EXCEPT !.pingTimer = FALSE, !.state = "Failed", !.pingFailed = TRUE,
                      !.ping = @ + 1]
      ELSE [Call(Engine(a, w), "writeDatagramEncrypted")
               EXCEPT !.ping = @ + 1, !.sent = Append(@, a.ping)]
      : w \in writeDatagramEncrypted(a) }

\* DtlsAssociation::pingTimeout
pingTimeout(a) ==
    { IF w.written <= 0
      THEN [Emit(Call(Engine(a, w), "writeDatagramEncrypted"), "error:ping")
               EXCEPT !.pingTimer = FALSE, !.state = "Failed", !.pingFailed = TRUE]
      ELSE [Call(Engine(a, w), "writeDatagramEncrypted")
               EXCEPT !.ping = @ + 1, !.sent = Append(@, a.ping)]
      : w \in writeDatagramEncrypted(a) }

\* startHandshake without the socket.state() test.
startHandshake_NoSocketCheck(a) ==
    { IF ~r.ok
      THEN [Emit(Call(Engine(a, r), "doHandshake"), "error:start")
               EXCEPT !.state = "Failed"]
      ELSE [Emit(Call(Engine(a, r), "doHandshake"), "info:starting")
               EXCEPT !.state = "Handshaking"]
      : r \in doHandshake(a, FALSE) }

\* DtlsAssociation::startHandshake
startHandshake(a) ==
    IF a.socket # "ConnectedState"
    THEN {[Emit(a, "info:connecting")
              EXCEPT !.connections = @ + 1, !.state = "ConnectingTransport"]}
    ELSE { IF ~r.ok
           THEN [Emit(Call(Engine(a, r), "doHandshake"), "error:start")
                    EXCEPT !.state = "Failed"]
           ELSE [Emit(Call(Engine(a, r), "doHandshake"), "info:starting")
                    EXCEPT !.state = "Handshaking"]
           : r \in doHandshake(a, FALSE) }

\* DtlsAssociation::udpSocketConnected
udpSocketConnected(a) ==
    startHandshake(Emit(a, "info:udp_connected"))

\* QAbstractSocket::connected emitted once: every connection made by
\* startHandshake() runs udpSocketConnected, one after the other.
RECURSIVE connected(_, _)
connected(a, n) ==
    IF n = 0 THEN {a}
    ELSE UNION { connected(b, n - 1) : b \in udpSocketConnected(a) }

\* The encrypted branch without pingTimer.stop() on a shutdown alert.
readEncrypted_NoStop(a) ==
    { IF p.size # 0
      THEN Respond(Call(Engine(a, p), "decryptDatagram"), a.name, a.datagram, p.plainText)
      ELSE IF p.dtlsError = "RemoteClosedConnectionError"
      THEN [Call(Emit(Call(Engine(a, p), "decryptDatagram"), "error:shutdown_alert"),
                 "close")
               EXCEPT !.socket = "UnconnectedState", !.state = "Closed"]
      ELSE Emit(Call(Engine(a, p), "decryptDatagram"), "warning:zero_length")
      : p \in decryptDatagram(a) }

\* The encrypted branch passing the raw datagram twice to serverResponse.
readEncrypted_RawTwice(a) ==
    { IF p.size # 0
      THEN Respond(Call(Engine(a, p), "decryptDatagram"), a.name, a.datagram, a.datagram)
      ELSE IF p.dtlsError = "RemoteClosedConnectionError"
      THEN [Call(Emit(Call(Engine(a, p), "decryptDatagram"), "error:shutdown_alert"),
                 "close")
               EXCEPT !.socket = "UnconnectedState", !.pingTimer = FALSE,
                      !.state = "Closed"]
      ELSE Emit(Call(Engine(a, p), "decryptDatagram"), "warning:zero_length")
      : p \in decryptDatagram(a) }

\* The encrypted branch taking every empty plaintext for a shutdown alert.
readEncrypted_EmptyIsClose(a) ==
    { IF p.size # 0
      THEN Respond(Call(Engine(a, p), "decryptDatagram"), a.name, a.datagram, p.plainText)
      ELSE [Call(Emit(Call(Engine(a, p), "decryptDatagram"), "error:shutdown_alert"),
                 "close")
               EXCEPT !.socket = "UnconnectedState", !.pingTimer = FALSE,
                      !.state = "Closed"]
      : p \in decryptDatagram(a) }

\* readyRead, the branch taken while crypto.isConnectionEncrypted()
readEncrypted(a) ==
    { IF p.size # 0
      THEN Respond(Call(Engine(a, p), "decryptDatagram"), a.name, a.datagram, p.plainText)
      ELSE IF p.dtlsError = "RemoteClosedConnectionError"
      THEN [Call(Emit(Call(Engine(a, p), "decryptDatagram"), "error:shutdown_alert"),
                 "close")
               EXCEPT !.socket = "UnconnectedState", !.pingTimer = FALSE,
                      !.state = "Closed"]
      ELSE Emit(Call(Engine(a, p), "decryptDatagram"), "warning:zero_length")
      : p \in decryptDatagram(a) }

\* The handshake branch without the immediate pingTimeout() call.
readHandshake_NoImmediatePing(a) ==
    { IF ~r.ok
      THEN [Emit(Call(Engine(a, r), "doHandshakeDgram"), "error:handshake")
               EXCEPT !.state = "Failed"]
      ELSE IF r.encrypted
      THEN [Emit(Call(Engine(a, r), "doHandshakeDgram"), "info:encrypted")
               EXCEPT !.pingTimer = TRUE, !.timerStarts = @ + 1,
                                        !.state = "Connected"]
      ELSE [Emit(Call(Engine(a, r), "doHandshakeDgram"), "info:continuing")
               EXCEPT !.state = "Handshaking"]
      : r \in doHandshake(a, TRUE) }

\* The handshake branch calling pingTimeout() after every successful continuation.
readHandshake_PingEarly(a) ==
    UNION { IF ~r.ok
            THEN {[Emit(Call(Engine(a, r), "doHandshakeDgram"), "error:handshake")
                      EXCEPT !.state = "Failed"]}
            ELSE IF r.encrypted
            THEN pingTimeout([Emit(Call(Engine(a, r), "doHandshakeDgram"),
                                   "info:encrypted")
                                 EXCEPT !.pingTimer = TRUE, !.timerStarts = @ + 1,
                                        !.state = "Connected"])
            ELSE pingTimeout([Emit(Call(Engine(a, r), "doHandshakeDgram"),
                                   "info:continuing")
                                 EXCEPT !.state = "Handshaking"])
            : r \in doHandshake(a, TRUE) }

\* readyRead, the branch taken while the connection is not encrypted
readHandshake(a) ==
    UNION { IF ~r.ok
            THEN {[Emit(Call(Engine(a, r), "doHandshakeDgram"), "error:handshake")
                      EXCEPT !.state = "Failed"]}
            ELSE IF r.encrypted
            THEN pingTimeout([Emit(Call(Engine(a, r), "doHandshakeDgram"),
                                   "info:encrypted")
                                 EXCEPT !.pingTimer = TRUE, !.timerStarts = @ + 1,
                                        !.state = "Connected"])
            ELSE {[Emit(Call(Engine(a, r), "doHandshakeDgram"), "info:continuing")
                      EXCEPT !.state = "Handshaking"]}
            : r \in doHandshake(a, TRUE) }

\* readyRead without the return after the 'spurious read' warning.
readyRead_NoReturn(a, bytesRead) ==
    IF bytesRead <= 0
    THEN IF a.encrypted
         THEN readEncrypted(Emit(Call(a, "readDatagram"), "warning:spurious"))
         ELSE readHandshake(Emit(Call(a, "readDatagram"), "warning:spurious"))
    ELSE IF a.encrypted
    THEN readEncrypted(Call(a, "readDatagram"))
    ELSE readHandshake(Call(a, "readDatagram"))

\* DtlsAssociation::readyRead
readyRead(a, bytesRead) ==
    IF bytesRead <= 0
    THEN {Emit(Call(a, "readDatagram"), "warning:spurious")}
    ELSE IF a.encrypted
    THEN readEncrypted(Call(a, "readDatagram"))
    ELSE readHandshake(Call(a, "readDatagram"))

\* handshakeTimeout without the 'retransmit' warning.
handshakeTimeout_Silent(a) ==
    { IF ~r.ok
      THEN [Emit(Call(Engine(a, r), "handleTimeout"), "error:retransmit")
               EXCEPT !.state = "Failed"]
      ELSE Call(Engine(a, r), "handleTimeout")
      : r \in handleTimeout(a) }

\* DtlsAssociation::handshakeTimeout
handshakeTimeout(a) ==
    { IF ~r.ok
      THEN [Emit(Call(Engine(Emit(a, "warning:retransmit"), r), "handleTimeout"),
                 "error:retransmit")
               EXCEPT !.state = "Failed"]
      ELSE Call(Engine(Emit(a, "warning:retransmit"), r), "handleTimeout")
      : r \in handleTimeout(a) }

\* The destructor without the isConnectionEncrypted() test.
destroy_AlwaysShutdown(a) ==
    [Call(a, "shutdown") EXCEPT !.alive = FALSE, !.encrypted = FALSE,
                                !.hs = "HandshakeNotStarted",
                                !.pingTimer = FALSE, !.hsTimer = FALSE]

\* DtlsAssociation::~DtlsAssociation
destroy(a) ==
    IF a.encrypted
    THEN [Call(a, "shutdown") EXCEPT !.alive = FALSE, !.encrypted = FALSE,
                                     !.hs = "HandshakeNotStarted",
                                     !.pingTimer = FALSE, !.hsTimer = FALSE]
    ELSE [a EXCEPT !.alive = FALSE, !.pingTimer = FALSE, !.hsTimer = FALSE]

(***************************************************************************)
(* The state after construction and the events of the loop.                *)
(***************************************************************************)

\* DtlsAssociation::DtlsAssociation as one value: the association named n
\* whose socket is in state s after connectToHost().
Fresh(n, s) ==
    [socket |-> s, connections |-> 0, hs |-> "HandshakeNotStarted",
     encrypted |-> FALSE, hsTimer |-> FALSE, dtlsError |-> "NoError",
     pingTimer |-> FALSE, ping |-> 0, alive |-> TRUE, state |-> "Idle",
     before |-> "Idle", handler |-> "constructor",
     events |-> <<>>, ops |-> <<>>, sent |-> <<>>, pingFailed |-> FALSE,
     started |-> FALSE, name |-> n, retransmits |-> 0, errored |-> FALSE,
     failures |-> 0, timerStarts |-> 0, readLength |-> 0, datagram |-> "",
     plainText |-> "", response |-> <<>>]

\* DtlsAssociation::DtlsAssociation: connectToHost() may have completed
\* already or still be pending; nothing else has run.
Constructed ==
    /\ socket \in {"ConnectingState", "ConnectedState"}
    /\ connections = 0
    /\ hs = "HandshakeNotStarted"
    /\ encrypted = FALSE
    /\ hsTimer = FALSE
    /\ dtlsError = "NoError"
    /\ pingTimer = FALSE
    /\ ping = 0
    /\ alive = TRUE
    /\ state = "Idle"
    /\ before = "Idle"
    /\ handler = "constructor"
    /\ events = <<>>
    /\ ops = <<>>
    /\ sent = <<>>
    /\ pingFailed = FALSE
    /\ started = FALSE
    /\ name = "client1"
    /\ retransmits = 0
    /\ errored = FALSE
    /\ failures = 0
    /\ timerStarts = 0
    /\ readLength = 0
    /\ datagram = ""
    /\ plainText = ""
    /\ response = <<>>

\* One association; the second one is constructed and never runs.
Init ==
    /\ Constructed
    /\ other = Fresh("client2", "ConnectingState")
    /\ actor = 1
    /\ steps = 0

\* The owner calls startHandshake().
StartHandshake ==
    /\ alive
    /\ socket # "ConnectedState" => connections < MaxConn
    /\ \E b \in startHandshake([Begin(Cur, "startHandshake") EXCEPT !.started = TRUE]) :
          Becomes(b)

\* The socket reports connected.
TransportConnected ==
    /\ alive
    /\ socket = "ConnectingState"
    /\ \E b \in connected([Begin(Cur, "udpSocketConnected")
                              EXCEPT !.socket = "ConnectedState"], connections) :
          Becomes(b)

\* The socket reports readyRead.
ReadyRead ==
    /\ alive
    /\ \E n \in readDatagram(Cur), d \in Datagrams :
          \E b \in readyRead([Begin(Cur, "readyRead")
                                 EXCEPT !.readLength = n,
                                        !.datagram = IF n > 0 THEN d ELSE ""], n) :
             Becomes(b)

\* handshakeTimeout wired to pingTimer's timeout as well as to crypto's.
HandshakeTimeout_AnyTimer ==
    /\ alive
    /\ hsTimer \/ pingTimer
    /\ retransmits < MaxRetransmit
    /\ \E b \in handshakeTimeout([Begin(Cur, "handshakeTimeout") EXCEPT !.hsTimer = FALSE]) :
          Becomes(b)

\* crypto's retransmission timer expires (single shot).
HandshakeTimeout ==
    /\ alive
    /\ hsTimer
    /\ retransmits < MaxRetransmit
    /\ \E b \in handshakeTimeout([Begin(Cur, "handshakeTimeout") EXCEPT !.hsTimer = FALSE]) :
          Becomes(b)

\* pingTimer's period elapses.
PingTick ==
    /\ alive
    /\ pingTimer
    /\ ping < MaxPing
    /\ \E b \in pingTimeout(Begin(Cur, "pingTimeout")) : Becomes(b)

\* The owner destroys the association.
Destroy ==
    /\ alive
    /\ Becomes(destroy(Begin(Cur, "destructor")))

\* Two associations whose ping counter is one static variable.
Other_StaticPing(o, b) == [o EXCEPT !.ping = b.ping]

\* What a step that leaves the association b does to another association o
\* of the same process: nothing, every member of the class being per-instance.
Other(o, b) == o

\* The step just taken by the first association, seen from the second one.
Alone ==
    /\ other' = Other(other, Cur')
    /\ UNCHANGED <<actor, steps>>

\* One association alone in its loop.
Next ==
    \/ StartHandshake /\ Alone
    \/ TransportConnected /\ Alone
    \/ ReadyRead /\ Alone
    \/ HandshakeTimeout /\ Alone
    \/ PingTick /\ Alone
    \/ Destroy /\ Alone

Spec == Init /\ [][Next]_vars

(***************************************************************************)
(* Two associations in one event loop: each dispatch step runs one slot of *)
(* one of them.  The loop is followed for MaxSteps steps.                  *)
(***************************************************************************)

Init2 ==
    /\ Constructed
    /\ other \in {Fresh("client2", s) : s \in {"ConnectingState", "ConnectedState"}}
    /\ actor = 1
    /\ steps = 0

\* The loop dispatches to association n.
Turn(n) ==
    /\ steps < MaxSteps
    /\ steps' = steps + 1
    /\ actor' = n

\* A step of the first association.
First ==
    /\ other' = Other(other, Cur')
    /\ Turn(1)

\* A step of the second association, S being what its slot can leave behind.
Second(S) ==
    \E b \in S :
       /\ other' = b
       /\ Becomes(Other(Cur, b))
       /\ Turn(2)

OtherStartHandshake ==
    /\ other.alive
    /\ other.socket # "ConnectedState" => other.connections < MaxConn
    /\ Second(startHandshake([Begin(other, "startHandshake") EXCEPT !.started = TRUE]))

OtherTransportConnected ==
    /\ other.alive
    /\ other.socket = "ConnectingState"
    /\ Second(connected([Begin(other, "udpSocketConnected")
                            EXCEPT !.socket = "ConnectedState"], other.connections))

OtherReadyRead ==
    /\ other.alive
    /\ \E n \in readDatagram(other), d \in Datagrams :
          Second(readyRead([Begin(other, "readyRead")
                              EXCEPT !.readLength = n,
                                     !.datagram = IF n > 0 THEN d ELSE ""], n))

OtherHandshakeTimeout ==
    /\ other.alive
    /\ other.hsTimer
    /\ other.retransmits < MaxRetransmit
    /\ Second(handshakeTimeout([Begin(other, "handshakeTimeout")
                                   EXCEPT !.hsTimer = FALSE]))

OtherPingTick ==
    /\ other.alive
    /\ other.pingTimer
    /\ other.ping < MaxPing
    /\ Second(pingTimeout(Begin(other, "pingTimeout")))

OtherDestroy ==
    /\ other.alive
    /\ Second({destroy(Begin(other, "destructor"))})

Next2 ==
    \/ StartHandshake /\ First
    \/ TransportConnected /\ First
    \/ ReadyRead /\ First
    \/ HandshakeTimeout /\ First
    \/ PingTick /\ First
    \/ Destroy /\ First
    \/ OtherStartHandshake
    \/ OtherTransportConnected
    \/ OtherReadyRead
    \/ OtherHandshakeTimeout
    \/ OtherPingTick
    \/ OtherDestroy

Spec2 == Init2 /\ [][Next2]_vars

TypeOK ==
    /\ socket \in {"ConnectingState", "ConnectedState", "UnconnectedState"}
    /\ connections \in 0..MaxConn
    /\ hs \in {"HandshakeNotStarted", "HandshakeInProgress", "HandshakeComplete"}
    /\ encrypted \in BOOLEAN
    /\ hsTimer \in BOOLEAN
    /\ pingTimer \in BOOLEAN
    /\ ping \in 0..MaxPing
    /\ alive \in BOOLEAN
    /\ state \in States
    /\ before \in States
    /\ pingFailed \in BOOLEAN
    /\ started \in BOOLEAN
    /\ retransmits \in 0..MaxRetransmit
    /\ errored \in BOOLEAN
    /\ failures \in 0..MaxConn
    /\ timerStarts \in 0..1
    /\ readLength \in {-1, 0, 1}
    /\ datagram \in Datagrams \cup {""}
    /\ plainText \in Plaintexts \cup {""}
    /\ Len(response) <= 1
    /\ actor \in {1, 2}
    /\ steps \in 0..MaxSteps

(***************************************************************************)
(* Vocabulary of the properties.                                           *)
(***************************************************************************)

Invoked(op) == \E i \in DOMAIN ops : ops[i] = op

Emitted(e) == \E i \in DOMAIN events : events[i] = e

NumErrors == Cardinality({i \in DOMAIN events : events[i] \in ErrorEvents})

\* An engine handshake or timeout operation ran in the last step.
HandshakeOpInvoked ==
    Invoked("doHandshake") \/ Invoked("doHandshakeDgram") \/ Invoked("handleTimeout")

(***************************************************************************)
(* C1.  Failed and Closed are terminal: from a state that is Failed or     *)
(* Closed, no step (readyRead, handshakeTimeout, the connected             *)
(* notification, another startHandshake()) invokes an engine handshake or  *)
(* timeout operation, emits a response, or reaches Handshaking or          *)
(* Connected.                                                              *)
(***************************************************************************)
C1_FailedClosedTerminal ==
    [][ (state \in {"Failed", "Closed"} /\ alive')
          => /\ ~HandshakeOpInvoked'
             /\ ~Emitted("response")'
             /\ state' \notin {"Handshaking", "Connected"} ]_vars

(***************************************************************************)
(* C2.  In every reachable state of a live association the keepalive       *)
(* timer is active if and only if the state is Connected.                  *)
(***************************************************************************)
C2_PingTimerIffConnected ==
    alive => (pingTimer <=> state = "Connected")

(***************************************************************************)
(* C3.  The destructor issues the engine's shutdown notification if the    *)
(* state is Connected and none in any other state.                         *)
(***************************************************************************)
C3_ShutdownIffConnected ==
    [][ handler' = "destructor"
          => (Invoked("shutdown")' <=> state = "Connected") ]_vars

\* C3 as amended: the destructor issues the shutdown notification if and
\* only if the engine reports the connection encrypted; none is issued in
\* Idle, ConnectingTransport, Handshaking or Closed, and one is issued in
\* Failed whenever the engine is still encrypted.
C3_ShutdownIffEncrypted ==
    [][ handler' = "destructor"
          => /\ Invoked("shutdown")' <=> encrypted
             /\ state \in {"Idle", "ConnectingTransport", "Handshaking", "Closed"}
                   => ~Invoked("shutdown")' ]_vars

\* Destroyed in Failed after a keepalive send failure, shutdown issued.
C3_Witness ==
    /\ handler = "destructor"
    /\ state = "Failed"
    /\ pingFailed
    /\ Invoked("shutdown")

(***************************************************************************)
(* C4.  While startHandshake() has never been called, no event invokes an  *)
(* engine handshake operation and the association stays Idle.              *)
(***************************************************************************)
C4_NoHandshakeBeforeStart ==
    ~started => (state = "Idle" /\ ~HandshakeOpInvoked)

C6_PingSequence ==
    ~pingFailed => \A i \in DOMAIN sent : sent[i] = i - 1

\* Three pings sent in a row, the last one by a timer tick.
C6_Witness ==
    /\ Len(sent) = 3
    /\ ~pingFailed
    /\ handler = "pingTimeout"

(***************************************************************************)
(* C7.  A readyRead step whose handshake continuation completes the        *)
(* handshake emits the success info, leaves the keepalive timer active,    *)
(* has sent ping 0 and ends Connected.                                     *)
(***************************************************************************)
HandshakeCompletes ==
    /\ handler' = "readyRead"
    /\ hs # "HandshakeComplete"
    /\ hs' = "HandshakeComplete"

C7_ConnectedStep ==
    [][ HandshakeCompletes
          => /\ Emitted("info:encrypted")'
             /\ pingTimer'
             /\ sent' = <<0>>
             /\ state' = "Connected" ]_vars

\* C7 as amended: the step emits the success info first, starts the timer
\* and attempts the ping numbered 0 before any timer tick; if that send
\* succeeds ping 0 is sent, the timer is active and the state is Connected;
\* if it fails an error follows, the timer is inactive and the state Failed.
C7_ConnectedStepOrPingFailure ==
    [][ HandshakeCompletes
          => /\ ping = 0 /\ sent = <<>> /\ ~pingTimer
             /\ ops' = <<"readDatagram", "doHandshakeDgram", "writeDatagramEncrypted">>
             /\ \/ /\ events' = <<"info:encrypted">>
                   /\ sent' = <<0>>
                   /\ pingTimer'
                   /\ state' = "Connected"
                \/ /\ events' = <<"info:encrypted", "error:ping">>
                   /\ sent' = <<>>
                   /\ ~pingTimer'
                   /\ state' = "Failed" ]_vars

\* The handshake completed and the immediate ping failed.
C7_Witness ==
    /\ handler = "readyRead"
    /\ events = <<"info:encrypted", "error:ping">>
    /\ state = "Failed"
    /\ ~pingTimer

(***************************************************************************)
(* C8.  A keepalive send failure leaves the state Failed and the timer     *)
(* inactive, and afterwards no step attempts a ping send or starts the     *)
(* timer.                                                                  *)
(***************************************************************************)
C8_NoPingAfterFailure ==
    [][ /\ (~pingFailed /\ pingFailed') => (state' = "Failed" /\ ~pingTimer')
        /\ pingFailed => (~Invoked("writeDatagramEncrypted")' /\ ~pingTimer'
                          /\ sent' = sent) ]_vars

\* An inbound datagram was processed after a keepalive send had failed.
C8_Witness ==
    /\ pingFailed
    /\ handler = "readyRead"
    /\ Emitted("response")

(***************************************************************************)
(* C9.  While Connected, a datagram that decrypts to nothing with the      *)
(* engine reporting remote close moves the state to Closed, emits exactly  *)
(* one error, closes the socket and leaves the keepalive timer inactive;   *)
(* no ping is sent once the socket is closed.                              *)
(***************************************************************************)
RemoteCloseRead ==
    /\ handler' = "readyRead"
    /\ Invoked("decryptDatagram")'
    /\ dtlsError' = "RemoteClosedConnectionError"

C9_RemoteClose ==
    [][ /\ (state = "Connected" /\ RemoteCloseRead)
           => /\ state' = "Closed"
              /\ events' = <<"error:shutdown_alert">>
              /\ NumErrors' = 1
              /\ Invoked("close")'
              /\ socket' = "UnconnectedState"
              /\ ~pingTimer'
        /\ socket = "UnconnectedState"
           => (~Invoked("writeDatagramEncrypted")' /\ sent' = sent /\ ~pingTimer') ]_vars

\* A Connected association has just processed a remote close.
C9_Witness ==
    /\ before = "Connected"
    /\ state = "Closed"
    /\ handler = "readyRead"
    /\ dtlsError = "RemoteClosedConnectionError"

(***************************************************************************)
(* C10.  startHandshake() on a socket that is not connected emits exactly  *)
(* one info ('connecting') and performs no engine handshake step; no       *)
(* handshake step runs while the socket is not connected; the connected    *)
(* notification then performs the initial handshake step.                  *)
(***************************************************************************)
C10_WaitsForTransport ==
    /\ [](HandshakeOpInvoked => socket = "ConnectedState")
    /\ [][ (handler' = "startHandshake" /\ socket # "ConnectedState")
             => (events' = <<"info:connecting">> /\ ops' = <<>>) ]_vars
    /\ [][ (handler' = "udpSocketConnected" /\ connections >= 1)
             => (ops'[1] = "doHandshake" /\ events'[1] = "info:udp_connected") ]_vars

\* The socket connected after a pending startHandshake() and the initial
\* handshake step was performed.
C10_Witness ==
    /\ handler = "udpSocketConnected"
    /\ before = "ConnectingTransport"
    /\ Invoked("doHandshake")

(***************************************************************************)
(* C11.  If during Handshaking the retransmission timer expires once, its  *)
(* timeout handling succeeds, and the next handshake continuation reports  *)
(* the engine encrypted, then exactly one 'retransmit' warning has been    *)
(* emitted, it precedes the success event, no error event is emitted and   *)
(* the final state is Connected.                                           *)
(***************************************************************************)

\* The continuation that completes a handshake whose timer expired once,
\* nothing having failed so far.
CompletesAfterOneRetransmit ==
    /\ HandshakeCompletes
    /\ before' = "Handshaking"
    /\ retransmits = 1
    /\ ~errored

Warnings == {"warning:retransmit", "warning:spurious", "warning:zero_length"}

C11_RetransmitThenConnected ==
    [][ CompletesAfterOneRetransmit
          => /\ retransmits' = 1
             /\ \A i \in DOMAIN events' : events'[i] \notin Warnings
             /\ Emitted("info:encrypted")'
             /\ ~errored'
             /\ state' = "Connected" ]_vars

\* C11 as amended: every expiry of the retransmission timer emits one
\* 'retransmit' warning first; the completing continuation emits no warning,
\* so the one warning precedes the success event; the success event comes
\* first in that step, and either nothing else is emitted and the state is
\* Connected, or the immediate keepalive send fails, one error follows the
\* success event and the state is Failed.
C11_RetransmitThenConnectedOrPingFailure ==
    /\ [][ handler' = "handshakeTimeout"
             => (retransmits' = retransmits + 1 /\ events'[1] = "warning:retransmit") ]_vars
    /\ [][ CompletesAfterOneRetransmit
             => /\ retransmits' = 1
                /\ \/ /\ events' = <<"info:encrypted">>
                      /\ ~errored'
                      /\ failures' = 0
                      /\ state' = "Connected"
                   \/ /\ events' = <<"info:encrypted", "error:ping">>
                      /\ failures' = 1
                      /\ ops'[Len(ops')] = "writeDatagramEncrypted"
                      /\ state' = "Failed" ]_vars

\* The handshake completed cleanly after exactly one retransmission.
C11_Witness ==
    /\ handler = "readyRead"
    /\ before = "Handshaking"
    /\ retransmits = 1
    /\ ~errored
    /\ Emitted("info:encrypted")
    /\ state = "Connected"

(***************************************************************************)
(* C12.  Over the whole lifetime of an association the keepalive timer is  *)
(* activated at most once, and that activation happens in the dispatch     *)
(* step of the Handshaking -> Connected transition; nothing else (repeated *)
(* datagrams, retransmissions, repeated startHandshake() calls, events     *)
(* after a failure) starts it again.                                       *)
(***************************************************************************)
C12_TimerStartedOnce ==
    /\ [](timerStarts <= 1)
    /\ [][ timerStarts' # timerStarts
             => /\ handler' = "readyRead"
                /\ before' = "Handshaking"
                /\ events'[1] = "info:encrypted"
                /\ HandshakeCompletes ]_vars

(***************************************************************************)
(* C13.  Every inbound datagram read with positive length while the engine *)
(* is encrypted and decrypting to a non-empty plaintext yields exactly one *)
(* response event carrying the association name, the raw datagram and the  *)
(* plaintext; the step emits no warning or error event and changes neither *)
(* the keepalive timer nor ping.                                           *)
(***************************************************************************)

\* A datagram of positive length was read while the engine was encrypted
\* and the engine returned a non-empty plaintext for it.
DecryptedRead ==
    /\ handler' = "readyRead"
    /\ readLength' > 0
    /\ encrypted
    /\ plainText' # ""

C13_ResponsePerPlaintext ==
    [][ DecryptedRead
          => /\ events' = <<"response">>
             /\ response' = << <<name, datagram', plainText'>> >>
             /\ datagram' \in Datagrams
             /\ plainText' \in Plaintexts
             /\ pingTimer' = pingTimer
             /\ ping' = ping ]_vars

\* A Connected association has just answered a datagram with a response.
C13_Witness ==
    /\ handler = "readyRead"
    /\ state = "Connected"
    /\ pingTimer
    /\ Len(response) = 1
    /\ response[1] = <<"client1", "dgram2", "plain1">>

(***************************************************************************)
(* C14.  Every failure reported by the engine (the initial handshake step  *)
(* failing to start, a handshake continuation failing, timeout handling    *)
(* failing, a keepalive send returning <= 0) is surfaced as an error event *)
(* in the same dispatch step and is reflected in the association state,    *)
(* which becomes Failed.                                                   *)
(***************************************************************************)
C14_FailureSurfaced ==
    [][ failures' > 0
          => (NumErrors' >= failures' /\ state' = "Failed") ]_vars

(***************************************************************************)
(* C15.  ping is changed by exactly one kind of step: a keepalive tick     *)
(* whose encrypted send returns more than 0 bytes, which adds 1.  Every    *)
(* other step (a failed keepalive send, any inbound datagram,              *)
(* retransmission-timer expiry, remote close, startHandshake(), transport  *)
(* connected) leaves ping unchanged; it never decreases and is never reset *)
(* to 0.                                                                   *)
(***************************************************************************)

\* pingTimeout() ran in the step, from pingTimer or as the immediate tick.
KeepaliveTick == Invoked("writeDatagramEncrypted")'

C15_PingChangesOnlyOnSend ==
    /\ [][ ping' # ping
             => /\ KeepaliveTick
                /\ failures' = 0
                /\ ping' = ping + 1
                /\ sent' = Append(sent, ping) ]_vars
    /\ [][ (~KeepaliveTick \/ failures' > 0) => (ping' = ping /\ sent' = sent) ]_vars
    /\ [][ (KeepaliveTick /\ failures' = 0) => ping' = ping + 1 ]_vars
    /\ [][ ping' >= ping ]_vars

\* ping has been incremented twice and a later datagram left it alone.
C15_Witness ==
    /\ ping = 2
    /\ handler = "readyRead"
    /\ response # <<>>

(***************************************************************************)
(* C16.  A read notification whose datagram read yields zero or negative   *)
(* length emits exactly one warning event and takes no further action in   *)
(* any state: no engine operation is invoked and the association state,    *)
(* keepalive timer, transport and ping are unchanged.                      *)
(***************************************************************************)

\* readyRead() ran and socket.readDatagram() returned no bytes.
SpuriousRead ==
    /\ handler' = "readyRead"
    /\ readLength' <= 0

C16_SpuriousReadOnlyWarns ==
    [][ SpuriousRead
          => /\ events' = <<"warning:spurious">>
             /\ ops' = <<"readDatagram">>
             /\ response' = <<>>
             /\ state' = state
             /\ pingTimer' = pingTimer
             /\ socket' = socket
             /\ ping' = ping
             /\ <<hs, encrypted, hsTimer, dtlsError>>' = <<hs, encrypted, hsTimer, dtlsError>>
             /\ <<sent, timerStarts, retransmits, errored>>'
                  = <<sent, timerStarts, retransmits, errored>> ]_vars

\* A spurious read happened during the handshake, the timer being armed.
C16_Witness ==
    /\ handler = "readyRead"
    /\ readLength = -1
    /\ events = <<"warning:spurious">>
    /\ state = "Handshaking"
    /\ hsTimer

(***************************************************************************)
(* C17.  While Connected, an inbound datagram that decrypts to an empty    *)
(* payload without a remote-close condition emits exactly one warning      *)
(* event and no response or error event, and leaves the state Connected:   *)
(* the keepalive timer stays active, the transport stays open and ping is  *)
(* unchanged.                                                              *)
(***************************************************************************)

\* A Connected association decrypted a datagram to an empty plaintext and
\* the engine did not report a remote close.
EmptyDecryptWhileConnected ==
    /\ state = "Connected"
    /\ handler' = "readyRead"
    /\ readLength' > 0
    /\ Invoked("decryptDatagram")'
    /\ plainText' = ""
    /\ dtlsError' # "RemoteClosedConnectionError"

C17_EmptyPlaintextOnlyWarns ==
    [][ EmptyDecryptWhileConnected
          => /\ events' = <<"warning:zero_length">>
             /\ response' = <<>>
             /\ errored' = errored
             /\ state' = "Connected"
             /\ pingTimer /\ pingTimer'
             /\ socket' = "ConnectedState"
             /\ ping' = ping ]_vars

\* A Connected association has just warned about an empty plaintext.
C17_Witness ==
    /\ before = "Connected"
    /\ state = "Connected"
    /\ handler = "readyRead"
    /\ events = <<"warning:zero_length">>
    /\ pingTimer
    /\ ping >= 1

(***************************************************************************)
(* C18.  Two associations running in the same event loop are independent:  *)
(* any step of one of them (startHandshake, transport connected, inbound   *)
(* datagram, retransmission-timer expiry, keepalive tick, destruction)     *)
(* leaves the other one's state, keepalive timer, transport, engine        *)
(* encryption status and ping unchanged, under every interleaving.         *)
(***************************************************************************)

\* What the claim names of an association a.
Visible(a) == <<a.state, a.pingTimer, a.socket, a.encrypted, a.ping>>

Count(s, x) == Cardinality({i \in DOMAIN s : s[i] = x})

C19_OneInitialStepPerNotification ==
    [][ (handler' = "udpSocketConnected" /\ connections >= 1)
          => /\ Count(ops', "doHandshake") = 1
             /\ Count(events', "info:starting") + Count(events', "error:start") = 1 ]_vars

(***************************************************************************)
(* C20.  Every keepalive send attempt (the encrypted write in pingTimeout, *)
(* from the immediate tick or from a timer tick) happens while the engine  *)
(* reports the connection encrypted: no ping is attempted before the       *)
(* handshake has completed or after a remote close has been processed.     *)
(***************************************************************************)
C20_PingOnlyWhileEncrypted ==
    /\ [][ KeepaliveTick
             => /\ \/ handler' = "pingTimeout" /\ encrypted /\ hs = "HandshakeComplete"
                   \/ HandshakeCompletes /\ ops'[Len(ops') - 1] = "doHandshakeDgram"
                /\ Count(ops', "writeDatagramEncrypted") = 1
                /\ dtlsError' # "InvalidOperation"
                /\ timerStarts' = 1 ]_vars
    /\ [][ socket = "UnconnectedState" => ~KeepaliveTick ]_vars
    /\ [](pingTimer => encrypted)

\* A timer tick has sent a ping on a connection the engine reports
\* encrypted, after the immediate one.
C20_Witness ==
    /\ handler = "pingTimeout"
    /\ Invoked("writeDatagramEncrypted")
    /\ encrypted
    /\ sent = <<0, 1>>

====
